---- MODULE Spec2Model ----
(***************************************************************************)
(* Model of notifier_playwright.py: one invocation of main() per step.    *)
(* The persisted state is the Gist file ({"date", "rows"}); a run loads   *)
(* it, fetches the aggregated capture, takes the empty / day-reset /      *)
(* same-day path, hands one text to Telegram and saves the new state.     *)
(*                                                                         *)
(* Every metric (cost in dollars, leads, sales) is a float in the code;    *)
(* the model counts all of them in thousandths, so EPS = 0.009 is 9, one  *)
(* lead is Scale, and the 1e-6 tolerance of clamp_monotonic is TOL in     *)
(* millionths.                                                             *)
(* Dates are day numbers; the code only compares them for equality.       *)
(***************************************************************************)
EXTENDS Integers, FiniteSets, Sequences, TLC

VARIABLES SPEND_DIR, today, gist, run, sent, peak, agg

vars == <<SPEND_DIR, today, gist, run, sent, peak, agg>>

(* ------------------------------ bounds -------------------------------- *)
MaxDay == 2
MaxCount == 1
MaxRows == 3

(* --------------------------- program constants ------------------------ *)
EPS == 9
Scale == 1000
TOL == 1

Keys == {"a", "b"}
CostVals == {0, 5, 1000 * Scale, 1015 * Scale}
Directions == {"up", "down", "both"}

NoState == [date |-> 0, rows |-> "absent"]
EmptyRows == << >>

Row(c, l, s) == [cost |-> c, leads |-> l, sales |-> s]

(* rows the source can show for a key: for "a" every cost with no conversions
   and every conversion count at one cost; "b" is a second campaign with one row *)
RowsOf(k) ==
  IF k = "a"
    THEN { Row(c, 0, 0) : c \in CostVals }
         \cup { Row(1000 * Scale, l * Scale, s * Scale) :
                  l \in 0..MaxCount, s \in 0..MaxCount }
    ELSE { Row(1000 * Scale, Scale, Scale) }

(* what fetch_rows() returns: at most one row per key, possibly no row at all *)
Captures ==
  UNION { { f \in [ks -> UNION { RowsOf(k) : k \in ks }] :
              \A k \in ks : f[k] \in RowsOf(k) } : ks \in SUBSET Keys }

(* --------------------- fetch with stabilisation ----------------------- *)
(* a raw row as the parsers build it: its key and its three metrics *)
RawRow(k, c, l, s) == [k |-> k, cost |-> c, leads |-> l, sales |-> s]

(* raw rows of one fetch: per key a cheap row with a lead, a dearer row with a
   sale and a row with neither *)
RawRows ==
  { RawRow(k, 5 * Scale, Scale, 0) : k \in Keys }
  \cup { RawRow(k, 8 * Scale, 0, Scale) : k \in Keys }
  \cup { RawRow(k, 5 * Scale, 0, 0) : k \in Keys }

RawInputs == UNION { [1..n -> RawRows] : n \in 0..MaxRows }

Max(x, y) == IF x >= y THEN x ELSE y

(* one turn of the loop: acc is the dict, in insertion order *)
agg_step_first(acc, r) ==
  IF \E i \in DOMAIN acc : acc[i].k = r.k THEN acc ELSE Append(acc, r)

agg_step(acc, r) ==
  IF \E i \in DOMAIN acc : acc[i].k = r.k
    THEN [i \in DOMAIN acc |->
            IF acc[i].k = r.k
              THEN [k |-> r.k,
                    cost  |-> Max(acc[i].cost, r.cost),
                    leads |-> Max(acc[i].leads, r.leads),
                    sales |-> Max(acc[i].sales, r.sales)]
              ELSE acc[i]]
    ELSE Append(acc, r)

RECURSIVE agg_loop(_, _)
agg_loop(acc, rows) ==
  IF rows = << >> THEN acc ELSE agg_loop(agg_step(acc, Head(rows)), Tail(rows))

aggregate_rows_max(rows) == agg_loop(<< >>, rows)

(* ------------------------------- utils -------------------------------- *)
Abs(x) == IF x < 0 THEN -x ELSE x

direction_ok_noguard(delta) ==
  IF SPEND_DIR = "up" THEN delta > 0
  ELSE IF SPEND_DIR = "down" THEN delta < 0
  ELSE delta # 0

direction_ok(delta) ==
  IF SPEND_DIR = "up" THEN delta > EPS
  ELSE IF SPEND_DIR = "down" THEN delta < -EPS
  ELSE Abs(delta) > EPS

clamp_trusting(new_v, old_v) == new_v

clamp_monotonic(new_v, old_v) ==
  IF new_v * Scale >= old_v * Scale - TOL THEN new_v ELSE old_v

(* ------------------------------- state -------------------------------- *)
load_state(httpOk) ==
  IF httpOk /\ gist # NoState
    THEN gist
    ELSE [date |-> today, rows |-> EmptyRows]

is_new_day_never(prev_date) == FALSE

is_new_day(prev_date) == prev_date # today

(* ----------------------------- main logic ----------------------------- *)
clamped(r, old) ==
  [cost  |-> clamp_monotonic(r.cost, old.cost),
   leads |-> clamp_monotonic(r.leads, old.leads),
   sales |-> clamp_monotonic(r.sales, old.sales)]

new_map_merging(prev_rows, rows) ==
  [k \in DOMAIN rows \cup DOMAIN prev_rows |->
     IF k \notin DOMAIN rows THEN prev_rows[k]
     ELSE IF k \in DOMAIN prev_rows THEN clamped(rows[k], prev_rows[k]) ELSE rows[k]]

new_map(prev_rows, rows) ==
  [k \in DOMAIN rows |->
     IF k \in DOMAIN prev_rows THEN clamped(rows[k], prev_rows[k]) ELSE rows[k]]

Alert(k, old_v, new_v) == [k |-> k, old |-> old_v, new |-> new_v]

first_spend_any(r) == r.cost > 0

first_spend(r) == r.cost > EPS

count_up_loose(new_v, old_v) == new_v - old_v > -EPS

count_up_over_one(new_v, old_v) == new_v - old_v > Scale

count_up(new_v, old_v) == new_v - old_v > EPS

best_spend_msg(prev_rows, nm) ==
  { Alert(k, prev_rows[k].cost, nm[k].cost) :
      k \in { x \in DOMAIN nm \cap DOMAIN prev_rows :
                direction_ok(nm[x].cost - prev_rows[x].cost) } }
  \cup
  { Alert(k, 0, nm[k].cost) :
      k \in { x \in DOMAIN nm \ DOMAIN prev_rows : first_spend(nm[x]) } }

lead_msgs(prev_rows, nm) ==
  { Alert(k, prev_rows[k].leads, nm[k].leads) :
      k \in { x \in DOMAIN nm \cap DOMAIN prev_rows :
                count_up(nm[x].leads, prev_rows[x].leads) } }
  \cup
  { Alert(k, 0, nm[k].leads) :
      k \in { x \in DOMAIN nm \ DOMAIN prev_rows : nm[x].leads > EPS } }

sale_msgs(prev_rows, nm) ==
  { Alert(k, prev_rows[k].sales, nm[k].sales) :
      k \in { x \in DOMAIN nm \cap DOMAIN prev_rows :
                count_up(nm[x].sales, prev_rows[x].sales) } }
  \cup
  { Alert(k, 0, nm[k].sales) :
      k \in { x \in DOMAIN nm \ DOMAIN prev_rows : nm[x].sales > EPS } }

(* the text handed to tg_send, as the sequence of its blocks: the heartbeat
   is one fixed block; NoText is a run that never reached tg_send *)
Block(kind, x) == [kind |-> kind, k |-> x.k, old |-> x.old, new |-> x.new]

HEARTBEAT == << [kind |-> "heartbeat", k |-> "", old |-> 0, new |-> 0] >>

NoText == << >>

(* the messages of one kind, in the order of the rows (by key) *)
RECURSIVE msg_list(_, _)
msg_list(kind, set) ==
  IF set = {} THEN << >>
  ELSE LET first == CHOOSE x \in set : \A y \in set : (x.k = "a" \/ y.k # "a")
       IN << Block(kind, first) >> \o msg_list(kind, set \ {first})

blocks_leads_first(sp, ld, sl) ==
  msg_list("lead", ld) \o msg_list("spend", sp) \o msg_list("sale", sl)

blocks(sp, ld, sl) ==
  msg_list("spend", sp) \o msg_list("lead", ld) \o msg_list("sale", sl)

text_with_heartbeat(sp, ld, sl) == blocks(sp, ld, sl) \o HEARTBEAT

text_of(sp, ld, sl) ==
  LET joined == blocks(sp, ld, sl)
  IN IF joined # << >> THEN joined ELSE HEARTBEAT

(* tg_send returns normally whether or not the post went through *)
tg_send_raising(sendOk) == sendOk

tg_send_returns(sendOk) == TRUE

(* the record of one invocation of main(): what it loaded and fetched, which
   path it took, the alerts it built, the text it handed to tg_send and whether
   the post and the save went through.  changed tells whether the Gist content
   differs after the run; again marks a run that repeats the capture of the run
   before it, on the same date, after that run's state was saved *)
Outcome(path, state, rows, sp, ld, sl, text, delivered, saved, after) ==
  [path |-> path, today |-> today, loaded |-> (state = gist),
   prev_keys |-> DOMAIN state.rows, cap |-> rows,
   spend |-> sp, lead |-> ld, sale |-> sl,
   text |-> text, delivered |-> delivered, saved |-> saved,
   changed |-> (after # gist),
   again |-> (run.path # "init" /\ run.cap = rows /\ run.today = today /\ run.saved)]

main_empty_resetting(state, rows, sendOk) ==
  /\ rows = EmptyRows
  /\ run' = Outcome("empty", state, rows, {}, {}, {}, HEARTBEAT, sendOk, FALSE,
                    [date |-> today, rows |-> rows])
  /\ gist' = [date |-> today, rows |-> rows]

main_empty(state, rows, sendOk) ==
  /\ rows = EmptyRows
  /\ run' = Outcome("empty", state, rows, {}, {}, {}, HEARTBEAT, sendOk, FALSE, gist)
  /\ gist' = gist

main_reset(state, rows, saveOk, sendOk) ==
  /\ rows # EmptyRows
  /\ is_new_day(state.date)
  /\ LET baseline == [date |-> today, rows |-> rows]
     IN IF saveOk
          THEN /\ gist' = baseline
               /\ run' = Outcome("newday", state, rows, {}, {}, {},
                                 HEARTBEAT, sendOk, TRUE, baseline)
          ELSE /\ gist' = gist
               /\ run' = Outcome("newday", state, rows, {}, {}, {},
                                 NoText, FALSE, FALSE, gist)

main_diff(state, rows, saveOk, sendOk) ==
  /\ rows # EmptyRows
  /\ ~ is_new_day(state.date)
  /\ LET nm == new_map(state.rows, rows)
         sp == best_spend_msg(state.rows, nm)
         ld == lead_msgs(state.rows, nm)
         sl == sale_msgs(state.rows, nm)
         saved == tg_send_returns(sendOk) /\ saveOk
         after == IF saved THEN [date |-> today, rows |-> nm] ELSE gist
     IN /\ run' = Outcome("diff", state, rows, sp, ld, sl, text_of(sp, ld, sl),
                          sendOk, saved, after)
        /\ gist' = after

main(rows, httpOk, saveOk, sendOk) ==
  LET state == load_state(httpOk)
  IN \/ main_empty(state, rows, sendOk)
     \/ main_reset(state, rows, saveOk, sendOk)
     \/ main_diff(state, rows, saveOk, sendOk)

(* ------------------------------ history ------------------------------ *)
(* the alerts of the last run as (kind, key, resulting value) *)
Triples(r) ==
  { <<"spend", x.k, x.new>> : x \in r.spend }
  \cup { <<"lead", x.k, x.new>> : x \in r.lead }
  \cup { <<"sale", x.k, x.new>> : x \in r.sale }

(* the highest leads and sales persisted so far for each key *)
PeakWith(pk, rows) ==
  [k \in DOMAIN pk \cup DOMAIN rows |->
     IF k \notin DOMAIN rows THEN pk[k]
     ELSE IF k \notin DOMAIN pk THEN [leads |-> rows[k].leads, sales |-> rows[k].sales]
     ELSE [leads |-> Max(pk[k].leads, rows[k].leads),
           sales |-> Max(pk[k].sales, rows[k].sales)]]

(* ------------------------------ behaviours ---------------------------- *)
InitRun ==
  [path |-> "init", today |-> 1, loaded |-> FALSE,
   prev_keys |-> {}, cap |-> EmptyRows,
   spend |-> {}, lead |-> {}, sale |-> {},
   text |-> NoText, delivered |-> FALSE, saved |-> FALSE,
   changed |-> FALSE, again |-> FALSE]

Init ==
  /\ SPEND_DIR \in Directions
  /\ today = 1
  /\ gist = NoState
  /\ run = InitRun
  /\ sent = {}
  /\ peak = EmptyRows
  /\ agg = [rows |-> << >>, out |-> << >>, done |-> FALSE]

(* a scheduled run; every collaborator answers *)
RunMain ==
  /\ \E rows \in Captures : main(rows, TRUE, TRUE, TRUE)
  /\ UNCHANGED <<SPEND_DIR, today, sent, peak, agg>>

(* the reference date moves on between two runs *)
Midnight ==
  /\ today < MaxDay
  /\ today' = today + 1
  /\ UNCHANGED <<SPEND_DIR, gist, run, sent, peak, agg>>

Next == RunMain \/ Midnight

Spec == Init /\ [][Next]_vars

(* a run in which one collaborator may fail: the Gist read, the Gist write or
   the Telegram post; the direction is the default of SPEND_DIRECTION *)
Faults == {"none", "load", "save", "send"}

InitFaults == Init /\ SPEND_DIR = "both"

RunFaulty ==
  /\ \E rows \in Captures, fault \in Faults :
        main(rows, fault # "load", fault # "save", fault # "send")
  /\ UNCHANGED <<SPEND_DIR, today, sent, peak, agg>>

NextFaults == RunFaulty \/ Midnight

SpecFaults == InitFaults /\ [][NextFaults]_vars

(* the runs of one reference day, each loading what the run before it saved;
   sent collects the alerts of the earlier runs of the day and peak the highest
   leads and sales persisted before the last run *)
DayRun ==
  /\ \E rows \in Captures : main(rows, TRUE, TRUE, TRUE)
  /\ sent' = sent \cup Triples(run)
  /\ peak' = IF gist = NoState THEN peak ELSE PeakWith(peak, gist.rows)
  /\ UNCHANGED <<SPEND_DIR, today, agg>>

SpecDay == Init /\ [][DayRun]_vars

(* aggregate_rows_max applied to one fetched list of raw rows *)
InitAgg ==
  /\ Init
  /\ SPEND_DIR = "both"

Fetch ==
  /\ agg.rows = << >> /\ ~ agg.done
  /\ \E rows \in RawInputs : agg' = [agg EXCEPT !.rows = rows]
  /\ UNCHANGED <<SPEND_DIR, today, gist, run, sent, peak>>

Aggregate ==
  /\ ~ agg.done
  /\ agg' = [agg EXCEPT !.out = aggregate_rows_max(agg.rows), !.done = TRUE]
  /\ UNCHANGED <<SPEND_DIR, today, gist, run, sent, peak>>

NextAgg == Fetch \/ Aggregate

SpecAgg == InitAgg /\ [][NextAgg]_vars

(* ------------------------------- claims ------------------------------- *)
AllAlerts(r) == r.spend \cup r.lead \cup r.sale

AlertsFor(set, k) == { x \in set : x.k = k }

(* in a step that is a run: the rows main() got from load_state *)
LoadedRows == IF run'.loaded THEN gist.rows ELSE EmptyRows

(* a step that is a run of main() taking the same-day path *)
DiffStep == today' = today /\ run'.path = "diff"

(* C1: within one reference day, with every run loading what the run before
   it saved, an alert of a given kind for a given key with a given resulting
   value is emitted in at most one run: no alert of the last run was already
   emitted by an earlier run of the day. *)
C1_AlertedOnce == Triples(run) \cap sent = {}

(* C2: a run that repeats the capture of the run before it, on the same
   reference day, after that run's state was saved and with that state loaded,
   emits no spend, lead or sale alert. *)
C2_RepeatIsSilent ==
  (run.again /\ run.loaded) => AllAlerts(run) = {}

C2_Witness ==
  /\ run.again /\ run.loaded /\ run.path = "diff"
  /\ \E k \in DOMAIN run.cap : run.cap[k].cost > EPS /\ run.cap[k].leads > 0
  /\ AllAlerts(run) = {}

(* C3: within one reference day the persisted leads and the persisted sales of
   a key never fall below a value persisted for that key earlier that day. *)
C3_NeverBelowPeak ==
  gist # NoState =>
    \A k \in DOMAIN gist.rows \cap DOMAIN peak :
      /\ gist.rows[k].leads >= peak[k].leads
      /\ gist.rows[k].sales >= peak[k].sales

(* C4: in a same-day run, for every key of the loaded snapshot whose captured
   leads (sales) is lower than the stored value, the value the run persists is
   the stored value and the run emits no lead (sale) alert for that key. *)
C4_RegressionClamped ==
  [][ (DiffStep /\ run'.loaded) =>
        \A k \in DOMAIN gist.rows \cap DOMAIN run'.cap :
          /\ run'.cap[k].leads < gist.rows[k].leads =>
               /\ run'.saved => gist'.rows[k].leads = gist.rows[k].leads
               /\ AlertsFor(run'.lead, k) = {}
          /\ run'.cap[k].sales < gist.rows[k].sales =>
               /\ run'.saved => gist'.rows[k].sales = gist.rows[k].sales
               /\ AlertsFor(run'.sale, k) = {} ]_vars

C4_Witness ==
  /\ run.path = "diff" /\ run.loaded /\ run.saved
  /\ \E k \in run.prev_keys \cap DOMAIN run.cap :
       /\ run.cap[k].leads < gist.rows[k].leads
       /\ run.cap[k].sales < gist.rows[k].sales
       /\ gist.rows[k].leads = Scale
       /\ AlertsFor(run.lead \cup run.sale, k) = {}

(* C5: a run that loads a snapshot dated another day and fetches a non-empty
   capture takes the reset path and not the same-day path, emits no spend,
   lead or sale alert, and persists exactly the capture, dated today. *)
C5_DayReset ==
  [][ (today' = today /\ run'.loaded /\ gist.date # today
         /\ run'.cap # EmptyRows) =>
        /\ run'.path = "newday"
        /\ AllAlerts(run') = {}
        /\ run'.saved => gist' = [date |-> today, rows |-> run'.cap] ]_vars

C5_Witness ==
  /\ run.path = "newday" /\ run.loaded /\ run.saved /\ run.today = today
  /\ gist = [date |-> today, rows |-> run.cap]
  /\ \E k \in run.prev_keys \cap DOMAIN run.cap : run.cap[k].cost > EPS

(* C6: a run that could load no prior state behaves like a day reset: it emits
   no spend, lead or sale alert and takes the reset path. *)
C6_AbsentIsReset ==
  (run.path \notin {"init", "empty"} /\ ~ run.loaded) =>
    (AllAlerts(run) = {} /\ run.path = "newday")

(* C7 as stated: for a key of the loaded snapshot a spend alert is emitted if
   and only if the cost delta satisfies the direction and exceeds the absolute
   threshold or the percentage threshold (both 20, as in the example). *)
C7_ThresholdRule ==
  [][ DiffStep =>
        \A k \in DOMAIN LoadedRows \cap DOMAIN run'.cap :
          LET abs_threshold == 20 * Scale
              pct_threshold == 20
              old_cost == LoadedRows[k].cost
              delta == run'.cap[k].cost - old_cost
              dir_ok == IF SPEND_DIR = "up" THEN delta > EPS
                        ELSE IF SPEND_DIR = "down" THEN delta < -EPS
                        ELSE Abs(delta) > EPS
              pct_over == IF old_cost = 0 THEN 100 > pct_threshold
                          ELSE Abs(delta) * 100 > pct_threshold * old_cost
          IN (AlertsFor(run'.spend, k) # {})
               <=> (dir_ok /\ (Abs(delta) > abs_threshold \/ pct_over)) ]_vars

(* C7 as amended: for a key of the loaded snapshot a spend alert is emitted if
   and only if SPEND_DIRECTION is up or both and the captured cost exceeds the
   stored cost by more than EPS; the alert goes from the stored cost to the
   captured cost.  There is no absolute or percentage threshold. *)
C7_DirectionRule ==
  [][ DiffStep =>
        \A k \in DOMAIN LoadedRows \cap DOMAIN run'.cap :
          LET old_cost == LoadedRows[k].cost
              new_cost == run'.cap[k].cost
          IN AlertsFor(run'.spend, k) =
               IF SPEND_DIR \in {"up", "both"} /\ new_cost - old_cost > EPS
                 THEN { Alert(k, old_cost, new_cost) }
                 ELSE {} ]_vars

C7_Witness ==
  /\ run.path = "diff" /\ SPEND_DIR = "up"
  /\ \E k \in run.prev_keys : Alert(k, 1000 * Scale, 1015 * Scale) \in run.spend

(* C8: with SPEND_DIRECTION = down no run emits a spend alert whose new cost
   is greater than its previous cost (0 for a first sighting). *)
C8_DownNeverUp ==
  SPEND_DIR = "down" => \A x \in run.spend : x.new <= x.old

(* C9: the persisted snapshot advances past an alerted change only if the
   alert text was delivered to the sink. *)
C9_NoSilentLoss ==
  (run.path = "diff" /\ run.saved /\ AllAlerts(run) # {}) => run.delivered

(* C10 as stated: for a key with no stored row on a same-day run and a
   strictly positive cost, the first-sighting policy decides: under "emit"
   exactly one spend alert with previous value 0, under "silent" no alert. *)
C10_PolicyDecides ==
  [][ DiffStep =>
        \A policy \in {"emit", "silent"} :
          \A k \in DOMAIN run'.cap \ DOMAIN LoadedRows :
            run'.cap[k].cost > 0 =>
              /\ policy = "emit" =>
                   AlertsFor(run'.spend, k) = { Alert(k, 0, run'.cap[k].cost) }
              /\ policy = "silent" => AlertsFor(AllAlerts(run'), k) = {} ]_vars

(* C10 as amended: the code has one first-sighting policy: for a key with no
   stored row on a same-day run exactly one spend alert, with previous value 0
   and the captured cost, is emitted when the cost exceeds EPS, and no spend
   alert when it does not. *)
C10_FirstSightingEmits ==
  [][ DiffStep =>
        \A k \in DOMAIN run'.cap \ DOMAIN LoadedRows :
          AlertsFor(run'.spend, k) =
            IF run'.cap[k].cost > EPS
              THEN { Alert(k, 0, run'.cap[k].cost) }
              ELSE {} ]_vars

C10_Witness ==
  /\ run.path = "diff" /\ run.loaded
  /\ \E k \in DOMAIN run.cap \ run.prev_keys :
       /\ run.prev_keys # {}
       /\ AlertsFor(run.spend, k) = { Alert(k, 0, run.cap[k].cost) }
       /\ Cardinality(AlertsFor(run.spend, k)) = 1

(* C11: aggregate_rows_max returns exactly one row per distinct key of its
   input, each metric of that row being the maximum of the metric over the
   input rows with that key, whatever the order of the input rows; an empty
   input gives an empty result. *)
Range(f) == { f[i] : i \in DOMAIN f }

Orders(n) == { p \in [1..n -> 1..n] : \A i, j \in 1..n : i # j => p[i] # p[j] }

MaxOf(S) == CHOOSE x \in S : \A y \in S : y <= x

C11_MaxPerKey ==
  agg.done =>
    LET rows == agg.rows
        out == agg.out
        of(k) == { i \in DOMAIN rows : rows[i].k = k }
    IN /\ { r.k : r \in Range(out) } = { r.k : r \in Range(rows) }
       /\ \A i, j \in DOMAIN out : out[i].k = out[j].k => i = j
       /\ \A r \in Range(out) :
            /\ r.cost  = MaxOf({ rows[i].cost  : i \in of(r.k) })
            /\ r.leads = MaxOf({ rows[i].leads : i \in of(r.k) })
            /\ r.sales = MaxOf({ rows[i].sales : i \in of(r.k) })
       /\ \A p \in Orders(Len(rows)) :
            Range(aggregate_rows_max([i \in 1..Len(rows) |-> rows[p[i]]]))
              = Range(out)
       /\ rows = << >> => out = << >>

C11_Witness ==
  /\ agg.done /\ Len(agg.rows) = 3 /\ Len(agg.out) = 2
  /\ \E r \in Range(agg.out) :
       r.cost = 8 * Scale /\ r.leads = Scale /\ r.sales = Scale

(* C12: cost is not clamped: in a same-day run, for a key of the loaded
   snapshot whose captured cost is lower than the stored cost, the cost the
   run persists is the captured cost. *)
C12_CostFollowsCapture ==
  [][ (DiffStep /\ run'.loaded /\ run'.saved) =>
        \A k \in DOMAIN gist.rows \cap DOMAIN run'.cap :
          run'.cap[k].cost < gist.rows[k].cost =>
            gist'.rows[k].cost = run'.cap[k].cost ]_vars

(* C13: with SPEND_DIRECTION down or both, a same-day run in which the
   captured cost of a stored key is lower than the stored cost by more than
   EPS emits a spend alert for that key. *)
C13_DecreaseAlerts ==
  [][ (DiffStep /\ run'.loaded /\ SPEND_DIR \in {"down", "both"}) =>
        \A k \in DOMAIN gist.rows \cap DOMAIN run'.cap :
          gist.rows[k].cost - run'.cap[k].cost > EPS =>
            \E x \in AlertsFor(run'.spend, k) : x.new < x.old ]_vars

(* C14: in a same-day run, for every key of the loaded snapshot, a lead alert
   is emitted if and only if the captured leads is strictly greater than the
   stored leads, and a sale alert if and only if the captured sales is
   strictly greater than the stored sales, whatever SPEND_DIRECTION is and
   whether or not a spend alert is emitted for the key. *)
C14_AnyIncreaseAlerts ==
  [][ DiffStep =>
        \A k \in DOMAIN LoadedRows \cap DOMAIN run'.cap :
          /\ (AlertsFor(run'.lead, k) # {})
               <=> (run'.cap[k].leads > LoadedRows[k].leads)
          /\ (AlertsFor(run'.sale, k) # {})
               <=> (run'.cap[k].sales > LoadedRows[k].sales) ]_vars

C14_Witness ==
  /\ run.path = "diff" /\ run.loaded /\ SPEND_DIR = "down"
  /\ \E k \in run.prev_keys \cap DOMAIN run.cap :
       /\ AlertsFor(run.lead, k) = { Alert(k, 0, Scale) }
       /\ AlertsFor(run.sale, k) = {}
       /\ AlertsFor(run.spend, k) = {}

(* C15: a run with an empty capture does no diffing, emits no spend, lead or
   sale alert and leaves the persisted state as it was, also when the stored
   date is not today; the reset is then taken by the next run that loads the
   state and has a non-empty capture. *)
C15_EmptyCaptureIsNoOp ==
  [][ (today' = today) =>
        /\ run'.cap = EmptyRows =>
             /\ run'.path = "empty"
             /\ AllAlerts(run') = {}
             /\ ~ run'.saved
             /\ gist' = gist
        /\ (run.path = "empty" /\ run'.cap # EmptyRows /\ run'.loaded
              /\ gist.date # today) => run'.path = "newday" ]_vars

C15_Witness ==
  /\ run.path = "empty" /\ run.loaded /\ run.today = today
  /\ gist # NoState /\ gist.date # today

(* C16: a same-day run whose delivery to the sink fails still persists the
   snapshot it would have persisted after a successful delivery (when the
   Gist write itself goes through): dated today, each captured key with its
   captured metrics or, for a stored key, the larger of captured and stored. *)
C16_SinkFailureKeepsState ==
  [][ (DiffStep /\ ~ run'.delivered) =>
        /\ run'.saved
        /\ gist'.date = today
        /\ DOMAIN gist'.rows = DOMAIN run'.cap
        /\ \A k \in DOMAIN run'.cap :
             gist'.rows[k] =
               IF k \in DOMAIN LoadedRows
                 THEN Row(Max(run'.cap[k].cost, LoadedRows[k].cost),
                          Max(run'.cap[k].leads, LoadedRows[k].leads),
                          Max(run'.cap[k].sales, LoadedRows[k].sales))
                 ELSE run'.cap[k] ]_vars

C16_Witness ==
  /\ run.path = "diff" /\ ~ run.delivered /\ run.saved /\ run.changed
  /\ run.lead # {} /\ gist.rows = run.cap

(* C17: after a run that had a non-empty capture and whose save succeeded, the
   persisted snapshot is dated with the run's date and holds exactly the keys
   of the capture: a stored key missing from the capture is dropped. *)
C17_KeysAreCaptureKeys ==
  run.saved =>
    /\ run.cap # EmptyRows
    /\ gist.date = run.today
    /\ DOMAIN gist.rows = DOMAIN run.cap

C17_Witness ==
  /\ run.saved /\ run.path = "diff" /\ run.loaded
  /\ run.prev_keys \ DOMAIN run.cap # {}
  /\ DOMAIN gist.rows = DOMAIN run.cap

(* C18: a run that completes hands one text to the sink: the alert blocks, all
   spend blocks, then all lead blocks, then all sale blocks, when there is an
   alert, and otherwise the heartbeat; the heartbeat is never part of a text
   with alerts, and empty-capture and day-reset runs send the heartbeat. *)
KindRank(kind) == IF kind = "spend" THEN 1 ELSE IF kind = "lead" THEN 2 ELSE 3

C18_OneText ==
  (run.path = "empty" \/ run.saved) =>
    /\ run.text # NoText
    /\ run.path \in {"empty", "newday"} => run.text = HEARTBEAT
    /\ AllAlerts(run) = {} => run.text = HEARTBEAT
    /\ AllAlerts(run) # {} =>
         /\ \A i \in DOMAIN run.text : run.text[i].kind # "heartbeat"
         /\ \A i, j \in DOMAIN run.text :
              i < j => KindRank(run.text[i].kind) <= KindRank(run.text[j].kind)
         /\ { run.text[i] : i \in DOMAIN run.text } =
              { Block("spend", x) : x \in run.spend }
              \cup { Block("lead", x) : x \in run.lead }
              \cup { Block("sale", x) : x \in run.sale }
         /\ Len(run.text) = Cardinality(run.spend) + Cardinality(run.lead)
                              + Cardinality(run.sale)

C18_Witness ==
  /\ run.path = "diff" /\ run.saved
  /\ run.spend # {} /\ run.sale # {} /\ Cardinality(run.lead) = 2
  /\ Len(run.text) >= 4

====
